---- MODULE Spec2Model ----
(***************************************************************************)
(* mongo-draws: a host draws freehand strokes in a Phaser scene, every     *)
(* completed stroke is pushed to the game document in MongoDB, and every   *)
(* connected client replays the document's strokes (snapshot at join time, *)
(* change stream afterwards).  The model follows src/game.js.              *)
(***************************************************************************)
EXTENDS Integers, Sequences, FiniteSets, TLC

\* ---------------------------------------------------------------- bounds
Clients == {"c1", "c2"}
Ids == {"A", "B"}
\* the anonymous identity a client's browser can hold: c2 runs in the same
\* browser profile as c1 (same identity) or in another one
Credentials == [c \in Clients |-> IF c = "c1" THEN {"A"} ELSE Ids]
Keys == {"room1"}
Positions == {<<12, 12>>, <<14, 13>>}
MaxSamples == 2
MaxEventStrokes == 2
MaxRedeliveries == 1

\* the "- 2" applied to every sampled pointer position
LineOffset == 2

NoId == "none"

VARIABLES
    docs,          \* the collection: game id -> [owner_id, strokes]
    pending,       \* updateOne requests issued and not yet applied
    feed,          \* per client: change events sent by the store, not yet handled
    pc,            \* per client: position in joinOrCreateGame / scene life cycle
    key,           \* per client: the id passed to joinOrCreateGame
    auth,          \* per client: auth.id returned by authenticate
    scene,         \* per client: the data of initScene (gameId, authId, ownerId, strokes)
    points,        \* per client: this.points
    path,          \* per client: this.path (start point followed by the lineTo targets)
    graphics,      \* per client: every path drawn on this.graphics, in draw order
    run,           \* history: points sampled on the current run of pressed ticks
    completed,     \* history: the runs of pressed ticks that ended, in order
    issued,        \* history: the strokes handed to updateOne, in order
    subscribedAt,  \* history: Len(strokes) of the document when the watch opened
    writers,       \* history: per game id, the request behind each entry of strokes
    creators,      \* history: per game id, the clients whose insertOne succeeded
    snapshots,     \* history: per game id, the strokes handed to each scene start
    lateCaller,    \* history: clients that called joinOrCreateGame on an existing id
    result,        \* per client: the value joinOrCreateGame resolves with
    faults,        \* history: the calls that were rejected (auth, lookup, insert, append)
    single,        \* history: path and draw log had every change event come once
    alt            \* this.points, this.path and the pushes as src/unnamed/part_000 keeps them

vars == <<docs, pending, feed, pc, key, auth, scene, points, path, graphics, run,
          completed, issued, subscribedAt, writers, creators, snapshots, lateCaller,
          result, faults, single, alt>>

\* ------------------------------------------------------------- helpers
IsPrefix(s, t) == Len(s) <= Len(t) /\ SubSeq(t, 1, Len(s)) = s

RECURSIVE SumLen(_, _)
SumLen(f, S) ==
    IF S = {} THEN 0
    ELSE LET x == CHOOSE y \in S : TRUE IN Len(f[x]) + SumLen(f, S \ {x})

RECURSIVE Flatten(_)
Flatten(ss) == IF ss = <<>> THEN <<>> ELSE Head(ss) \o Flatten(Tail(ss))

\* [x - 2, y - 2] of the active pointer
SamplePoint(pos) == <<pos[1] - LineOffset, pos[2] - LineOffset>>

NoScene == [gameId |-> NoId, authId |-> NoId, ownerId |-> NoId, strokes |-> <<>>]

\* variant: the scene is started with the caller's own id as ownerId
initScene_SelfOwner(id, authId, ownerId, strokes) ==
    [gameId |-> id, authId |-> authId, ownerId |-> authId, strokes |-> strokes]

\* this.game.scene.start("default", {...}) followed by initScene(data)
initScene(id, authId, ownerId, strokes) ==
    [gameId |-> id, authId |-> authId, ownerId |-> ownerId, strokes |-> strokes]

\* variant: the loop never starts a new Path and keeps extending this.path
StrokePath_Extend(old, stroke) == old \o stroke

\* one pass of the render loop over a stroke: new Path at the first point,
\* lineTo for the others; a stroke without points leaves this.path as it was
StrokePath(old, stroke) == IF Len(stroke) = 0 THEN old ELSE stroke

\* the paths drawn by rendering a list of strokes one after the other,
\* starting from this.path = p
RECURSIVE DrawAll(_, _, _)
DrawAll(p, list, src) ==
    IF list = <<>> THEN <<>>
    ELSE LET q == StrokePath(p, Head(list))
         IN <<[src |-> src, line |-> q]>> \o DrawAll(q, Tail(list), src)

RECURSIVE LastPath(_, _)
LastPath(p, list) ==
    IF list = <<>> THEN p ELSE LastPath(StrokePath(p, Head(list)), Tail(list))

\* --------------------------------------------- the part_000 variant
\* variant: the start point of the path is left out of the JSON
toJSON_Curves(p) ==
    [x |-> 0, y |-> 0, autoClose |-> TRUE,
     curves |-> [i \in 1..(Len(p) - 1) |-> <<p[i], p[i + 1]>>]]

\* this.path.toJSON(): the start point and one line curve (from, to) per lineTo
toJSON(p) ==
    [x |-> IF p = <<>> THEN 0 ELSE p[1][1],
     y |-> IF p = <<>> THEN 0 ELSE p[1][2],
     autoClose |-> TRUE,
     curves |-> [i \in 1..(Len(p) - 1) |-> <<p[i], p[i + 1]>>]]

\* path.fromJSON(stroke): the start point followed by the end of each curve
fromJSON(j) ==
    <<<<j.x, j.y>>>> \o [i \in 1..Len(j.curves) |-> j.curves[i][2]]

\* updateScene of part_000 for an owner: if / else if, the push takes
\* this.path.toJSON()
UpdateScenePart000(a, c, isDown, pt) ==
    IF ~isDown /\ Len(a.points[c]) > 0
    THEN [a EXCEPT !.issued[c] = Append(@, toJSON(a.path[c])),
                   !.points[c] = <<>>]
    ELSE IF isDown
         THEN [a EXCEPT !.path[c] = IF Len(a.points[c]) = 0 THEN <<pt>>
                                    ELSE Append(@, pt),
                        !.points[c] = Append(@, pt)]
         ELSE a

\* createScene of part_000: every snapshot stroke is loaded into a new
\* this.path with fromJSON
CreateScenePart000(a, c, strokes) ==
    IF strokes = <<>> THEN a
    ELSE [a EXCEPT !.path[c] = fromJSON(toJSON(strokes[Len(strokes)]))]

\* --------------------------------------------- every event delivered once
\* the render loop applied to the path and draw log of the single-delivery run
DrawnOnce(c, list, src) ==
    [single EXCEPT !.graphics[c] = @ \o DrawAll(single.path[c], list, src),
                   !.path[c] = LastPath(@, list)]

\* the listener in the single-delivery run: a second delivery is skipped
OnNextOnce(c, ev, list) ==
    IF ev.again THEN single ELSE DrawnOnce(c, list, "feed")

\* the pressed branch of updateScene on the path of the single-delivery run
TickOnce(c, buf, pt) ==
    LET p == IF Len(buf) = 0 THEN <<pt>> ELSE Append(single.path[c], pt) IN
    [single EXCEPT !.path[c] = p,
                   !.graphics[c] = Append(@, [src |-> "tick", line |-> p])]

\* ------------------------------------------- values of joinOrCreateGame
\* nothing returned yet, or undefined after a caught error
Undefined ==
    [fields |-> {}, _id |-> NoId, gameId |-> NoId, authId |-> NoId,
     owner_id |-> NoId, strokes |-> <<>>]

\* joinGame returns the document found: { _id, owner_id, strokes, solved }
JoinResult(id, doc) ==
    [fields |-> {"_id", "owner_id", "strokes", "solved"},
     _id |-> id, gameId |-> NoId, authId |-> NoId,
     owner_id |-> doc.owner_id, strokes |-> doc.strokes]

\* createGame returns { gameId, authId, owner_id }
CreateResult(id, authId) ==
    [fields |-> {"gameId", "authId", "owner_id"},
     _id |-> NoId, gameId |-> id, authId |-> authId,
     owner_id |-> authId, strokes |-> <<>>]

\* ------------------------------------------------- joinOrCreateGame
\* authenticate() resolves with auth.id, joinGame issues findOne({_id: id})
JoinOrCreateGame(c, id, a) ==
    /\ pc[c] = "start"
    /\ pc' = [pc EXCEPT ![c] = "finding"]
    /\ key' = [key EXCEPT ![c] = id]
    /\ auth' = [auth EXCEPT ![c] = a]
    /\ lateCaller' = IF id \in DOMAIN docs THEN lateCaller \cup {c} ELSE lateCaller
    /\ UNCHANGED <<docs, pending, feed, scene, points, path, graphics, run,
                   completed, issued, subscribedAt, writers, creators, snapshots, result, faults, single, alt>>

\* findOne is served; joinGame starts the scene on a document, and on null
\* joinOrCreateGame goes on to createGame, which issues insertOne
JoinGame(c) ==
    /\ pc[c] = "finding"
    /\ IF key[c] \in DOMAIN docs
       THEN LET doc == docs[key[c]] IN
            /\ scene' = [scene EXCEPT
                   ![c] = initScene(key[c], auth[c], doc.owner_id, doc.strokes)]
            /\ pc' = [pc EXCEPT ![c] = "booting"]
            /\ snapshots' = [snapshots EXCEPT ![key[c]] = Append(@, doc.strokes)]
            /\ result' = [result EXCEPT ![c] = JoinResult(key[c], doc)]
       ELSE /\ pc' = [pc EXCEPT ![c] = "inserting"]
            /\ UNCHANGED <<scene, snapshots, result>>
    /\ UNCHANGED <<docs, pending, feed, key, auth, points, path, graphics, run,
                   completed, issued, subscribedAt, writers, creators, lateCaller,
                   faults, single, alt>>

\* variant: the document is written whether or not the id is taken
InsertOne_Upsert(d, id, owner) ==
    [ok |-> TRUE,
     docs |-> [k \in DOMAIN d \cup {id} |->
                 IF k = id THEN [owner_id |-> owner, strokes |-> <<>>]
                 ELSE d[k]]]

\* insertOne: _id is the collection's unique key
InsertOne(d, id, owner) ==
    IF id \in DOMAIN d
    THEN [ok |-> FALSE, docs |-> d]
    ELSE [ok |-> TRUE,
          docs |-> [k \in DOMAIN d \cup {id} |->
                      IF k = id THEN [owner_id |-> owner, strokes |-> <<>>]
                      ELSE d[k]]]

\* insertOne is served; createGame starts the scene as owner, or the
\* rejection is caught, logged, and joinOrCreateGame returns undefined
CreateGame(c) ==
    /\ pc[c] = "inserting"
    /\ LET r == InsertOne(docs, key[c], auth[c]) IN
       /\ docs' = r.docs
       /\ IF r.ok
          THEN /\ scene' = [scene EXCEPT
                      ![c] = initScene(key[c], auth[c], auth[c], <<>>)]
               /\ pc' = [pc EXCEPT ![c] = "booting"]
               /\ creators' = [creators EXCEPT ![key[c]] = Append(@, c)]
               /\ snapshots' = [snapshots EXCEPT ![key[c]] = Append(@, <<>>)]
               /\ result' = [result EXCEPT ![c] = CreateResult(key[c], auth[c])]
          ELSE /\ pc' = [pc EXCEPT ![c] = "failed"]
               /\ result' = [result EXCEPT ![c] = Undefined]
               /\ UNCHANGED <<scene, creators, snapshots>>
    /\ UNCHANGED <<pending, feed, key, auth, points, path, graphics, run,
                   completed, issued, subscribedAt, writers, lateCaller, faults, single, alt>>

\* ------------------------------------------------------- createScene
\* variant: collection.watch is issued before the snapshot is drawn
CreateScene_WatchFirst(c) ==
    /\ pc[c] = "booting"
    /\ pc' = [pc EXCEPT ![c] = "watching"]
    /\ UNCHANGED <<docs, pending, feed, key, auth, scene, points, path, graphics,
                   run, completed, issued, subscribedAt, writers, creators,
                   snapshots, lateCaller, result, faults, single, alt>>

\* the snapshot is drawn, then collection.watch is issued (and awaited)
CreateScene(c) ==
    /\ pc[c] = "booting"
    /\ graphics' = [graphics EXCEPT
           ![c] = @ \o DrawAll(path[c], scene[c].strokes, "snapshot")]
    /\ path' = [path EXCEPT ![c] = LastPath(@, scene[c].strokes)]
    /\ pc' = [pc EXCEPT ![c] = "watching"]
    /\ single' = DrawnOnce(c, scene[c].strokes, "snapshot")
    /\ alt' = CreateScenePart000(alt, c, scene[c].strokes)
    /\ UNCHANGED <<docs, pending, feed, key, auth, scene, points, run, completed,
                   issued, subscribedAt, writers, creators, snapshots, lateCaller, result, faults>>

\* the store opens the change stream; stream.onNext registers the listener
WatchOpen(c) ==
    /\ pc[c] = "watching"
    /\ pc' = [pc EXCEPT ![c] = "live"]
    /\ subscribedAt' = [subscribedAt EXCEPT
           ![c] = Len(docs[scene[c].gameId].strokes)]
    /\ UNCHANGED <<docs, pending, feed, key, auth, scene, points, path, graphics,
                   run, completed, issued, writers, creators, snapshots, lateCaller, result, faults, single, alt>>

\* variant: of the updated fields only the last one is drawn
Delta_Newest(ev) ==
    IF ev.hasStrokes
    THEN (IF Len(ev.strokes) = 0 THEN <<>> ELSE <<ev.strokes[1]>>)
    ELSE (IF Len(ev.indexed) = 0 THEN <<>>
          ELSE <<ev.indexed[Len(ev.indexed)].value>>)

\* the strokes the listener draws for one event: strokes["0"] when the
\* event carries the whole field, else every updated field in key order
Delta(ev) ==
    IF ev.hasStrokes
    THEN (IF Len(ev.strokes) = 0 THEN <<>> ELSE <<ev.strokes[1]>>)
    ELSE [i \in 1..Len(ev.indexed) |-> ev.indexed[i].value]

\* variant: the listener pushes the strokes it has drawn back to the store
OnNext_PushBack(c) ==
    /\ pc[c] = "live"
    /\ feed[c] # <<>>
    /\ LET list == Delta(Head(feed[c])) IN
       /\ graphics' = [graphics EXCEPT ![c] = @ \o DrawAll(path[c], list, "feed")]
       /\ path' = [path EXCEPT ![c] = LastPath(@, list)]
       /\ single' = OnNextOnce(c, Head(feed[c]), list)
       /\ pending' = pending \cup
             {[from |-> c, seq |-> 0, owner_id |-> scene[c].ownerId,
               _id |-> scene[c].gameId, stroke |-> list[i]] : i \in 1..Len(list)}
    /\ feed' = [feed EXCEPT ![c] = Tail(@)]
    /\ UNCHANGED <<docs, pc, key, auth, scene, points, run, completed, issued,
                   subscribedAt, writers, creators, snapshots, lateCaller, result,
                   faults, alt>>

\* stream.onNext(event => ...)
OnNext(c) ==
    /\ pc[c] = "live"
    /\ feed[c] # <<>>
    /\ LET list == Delta(Head(feed[c])) IN
       /\ graphics' = [graphics EXCEPT ![c] = @ \o DrawAll(path[c], list, "feed")]
       /\ path' = [path EXCEPT ![c] = LastPath(@, list)]
       /\ single' = OnNextOnce(c, Head(feed[c]), list)
    /\ feed' = [feed EXCEPT ![c] = Tail(@)]
    /\ UNCHANGED <<docs, pending, pc, key, auth, scene, points, run, completed, issued,
                   subscribedAt, writers, creators, snapshots, lateCaller, result,
                   faults, alt>>

\* ------------------------------------------------------- updateScene
\* pressed ticks sampled so far by all owners; bounds the exploration
SamplesTaken ==
    SumLen(points, Clients)
    + SumLen([c \in Clients |-> Flatten(issued[c])], Clients)

\* variant: updateScene runs its body for every client
IsOwner_Anyone(c) == TRUE

\* c is the host of its game: this.authId == this.ownerId
IsOwner(c) == scene[c].authId = scene[c].ownerId

\* the updateOne request of one completed stroke
PushRequest(c) ==
    [from |-> c, seq |-> Len(issued[c]) + 1,
     owner_id |-> scene[c].authId, _id |-> scene[c].gameId,
     stroke |-> points[c]]

\* variant: the buffer is pushed on every tick that finds it non-empty
Commits_Eager(c, isDown) == Len(points[c]) > 0

\* variant: a buffer of a single point is not taken for a stroke
Commits_Multi(c, isDown) == ~isDown /\ Len(points[c]) > 1

\* variant: every released tick pushes the buffer, empty or not
Commits_OnRelease(c, isDown) == ~isDown

\* first if of updateScene: the pointer is up and the buffer holds points
Commits(c, isDown) == ~isDown /\ Len(points[c]) > 0

\* variant: the buffer is not cleared after the commit
AfterCommit_Keep(buf, sent) == buf

\* this.points = [] once the buffer has been handed to updateOne
AfterCommit(buf, sent) == IF sent THEN <<>> ELSE buf

\* variant: a sample equal to the last buffered point is dropped
PushPoint_Dedup(buf, isDown, pt) ==
    IF isDown /\ (buf = <<>> \/ buf[Len(buf)] # pt) THEN Append(buf, pt) ELSE buf

\* variant: no sample is taken while a push is outstanding
PushPoint_Wait(buf, isDown, pt) ==
    IF isDown /\ pending = {} THEN Append(buf, pt) ELSE buf

\* this.points.push([x - 2, y - 2]) on every tick with the pointer down
PushPoint(buf, isDown, pt) == IF isDown THEN Append(buf, pt) ELSE buf

\* one tick of the update loop with the pointer sample (isDown, pos)
UpdateScene(c, isDown, pos) ==
    /\ pc[c] \in {"watching", "live"}
    /\ isDown => SamplesTaken < MaxSamples
    /\ IF IsOwner(c)
       THEN LET pt == SamplePoint(pos)
                sent == Commits(c, isDown)
                buf == AfterCommit(points[c], sent)
                p == IF Len(buf) = 0 THEN <<pt>> ELSE Append(path[c], pt)
            IN
            /\ pending' = IF sent THEN pending \cup {PushRequest(c)} ELSE pending
            /\ issued' = IF sent THEN [issued EXCEPT ![c] = Append(@, points[c])]
                         ELSE issued
            /\ points' = [points EXCEPT ![c] = PushPoint(buf, isDown, pt)]
            /\ path' = IF isDown THEN [path EXCEPT ![c] = p] ELSE path
            /\ graphics' = IF isDown
                           THEN [graphics EXCEPT
                                    ![c] = Append(@, [src |-> "tick", line |-> p])]
                           ELSE graphics
            /\ single' = IF isDown THEN TickOnce(c, buf, pt) ELSE single
            /\ alt' = UpdateScenePart000(alt, c, isDown, pt)
       ELSE UNCHANGED <<pending, issued, points, path, graphics, single, alt>>
    \* history of the samples seen by an owner's sampler
    /\ IF IsOwner(c)
       THEN /\ run' = [run EXCEPT
                   ![c] = IF isDown THEN Append(@, SamplePoint(pos)) ELSE <<>>]
            /\ completed' = IF ~isDown /\ run[c] # <<>>
                            THEN [completed EXCEPT ![c] = Append(@, run[c])]
                            ELSE completed
       ELSE UNCHANGED <<run, completed>>
    /\ UNCHANGED <<docs, feed, pc, key, auth, scene, subscribedAt, writers,
                   creators, snapshots, lateCaller, result, faults>>

\* ------------------------------------------------------------ the store
\* variant: the filter of updateOne holds the _id only
Matches_IdOnly(d, filter) == filter._id \in DOMAIN d

\* the filter {owner_id, _id} of updateOne selects a document
Matches(d, filter) ==
    /\ filter._id \in DOMAIN d
    /\ d[filter._id].owner_id = filter.owner_id

\* variant: the new stroke is put in front of the array
updateOne_Prepend(d, filter, stroke) ==
    IF Matches(d, filter)
    THEN [d EXCEPT ![filter._id].strokes = <<stroke>> \o @]
    ELSE d

\* updateOne(filter, {$push: {strokes: stroke}})
updateOne(d, filter, stroke) ==
    IF Matches(d, filter)
    THEN [d EXCEPT ![filter._id].strokes = Append(@, stroke)]
    ELSE d

\* event.updateDescription.updatedFields of a push: the new element under
\* its position "strokes.N", or the whole field under "strokes"
ChangeEvent(before, stroke, whole) ==
    IF whole
    THEN [hasStrokes |-> TRUE, strokes |-> Append(before, stroke), indexed |-> <<>>,
          again |-> FALSE]
    ELSE [hasStrokes |-> FALSE, strokes |-> <<>>,
          indexed |-> <<[pos |-> Len(before), value |-> stroke]>>, again |-> FALSE]

\* variant: the change stream is opened without a filter
Watchers_All(id) == {c \in Clients : pc[c] = "live"}

\* the watchers of a document: watch({"fullDocument._id": this.gameId})
Watchers(id) == {c \in Clients : pc[c] = "live" /\ scene[c].gameId = id}

\* the store applies one outstanding updateOne (requests are not awaited by
\* the sender, so they are applied in any order) and notifies the watchers
UpdateOne(r) ==
    /\ r \in pending
    /\ pending' = pending \ {r}
    /\ LET filter == [owner_id |-> r.owner_id, _id |-> r._id] IN
       /\ docs' = updateOne(docs, filter, r.stroke)
       /\ IF Matches(docs, filter)
          THEN LET before == docs[r._id].strokes IN
               \E whole \in (IF before = <<>> THEN BOOLEAN ELSE {FALSE}) :
                  /\ feed' = [c \in Clients |->
                                IF c \in Watchers(r._id)
                                THEN Append(feed[c], ChangeEvent(before, r.stroke, whole))
                                ELSE feed[c]]
                  /\ writers' = [writers EXCEPT ![r._id] = Append(@, r)]
          ELSE UNCHANGED <<feed, writers>>
    /\ UNCHANGED <<pc, key, auth, scene, points, path, graphics, run, completed,
                   issued, subscribedAt, creators, snapshots, lateCaller, result, faults, single, alt>>

\* the change stream sends an event a second time (at-least-once delivery);
\* the copy is queued behind the events already sent
Redeliver(c) ==
    /\ pc[c] = "live"
    /\ single.again < MaxRedeliveries
    /\ \E i \in 1..Len(feed[c]) :
          feed' = [feed EXCEPT ![c] = Append(@, [feed[c][i] EXCEPT !.again = TRUE])]
    /\ single' = [single EXCEPT !.again = @ + 1]
    /\ UNCHANGED <<docs, pending, pc, key, auth, scene, points, path, graphics, run,
                   completed, issued, subscribedAt, writers, creators, snapshots,
                   lateCaller, result, faults, alt>>

\* ------------------------------------------------------ rejected calls
NoRequest ==
    [from |-> NoId, seq |-> 0, owner_id |-> NoId, _id |-> NoId, stroke |-> <<>>]

Fault(kind, c, r) == [kind |-> kind, who |-> c, req |-> r]

\* variant: joinOrCreateGame goes on to joinGame without an identity
AuthenticateError_GoesOn(c, id) ==
    /\ pc[c] = "start"
    /\ pc' = [pc EXCEPT ![c] = "finding"]
    /\ key' = [key EXCEPT ![c] = id]
    /\ faults' = faults \cup {Fault("auth", c, NoRequest)}
    /\ UNCHANGED <<docs, pending, feed, auth, scene, points, path, graphics, run,
                   completed, issued, subscribedAt, writers, creators, snapshots,
                   lateCaller, result, single, alt>>

\* authenticate() rejects: the catch of joinOrCreateGame logs the error and
\* the call resolves with undefined
AuthenticateError(c, id) ==
    /\ pc[c] = "start"
    /\ pc' = [pc EXCEPT ![c] = "authfailed"]
    /\ key' = [key EXCEPT ![c] = id]
    /\ result' = [result EXCEPT ![c] = Undefined]
    /\ faults' = faults \cup {Fault("auth", c, NoRequest)}
    /\ UNCHANGED <<docs, pending, feed, auth, scene, points, path, graphics, run,
                   completed, issued, subscribedAt, writers, creators, snapshots,
                   lateCaller, single, alt>>

\* findOne rejects: the catch of joinGame logs the error and joinGame
\* returns undefined; undefined == null holds, so joinOrCreateGame calls
\* createGame, which issues insertOne
JoinGameError(c) ==
    /\ pc[c] = "finding"
    /\ pc' = [pc EXCEPT ![c] = "inserting"]
    /\ faults' = faults \cup {Fault("lookup", c, NoRequest)}
    /\ UNCHANGED <<docs, pending, feed, key, auth, scene, points, path, graphics,
                   run, completed, issued, subscribedAt, writers, creators,
                   snapshots, lateCaller, result, single, alt>>

\* insertOne rejects for a reason other than the unique key: the catch of
\* createGame logs the error, no scene is started
CreateGameError(c) ==
    /\ pc[c] = "inserting"
    /\ pc' = [pc EXCEPT ![c] = "failed"]
    /\ result' = [result EXCEPT ![c] = Undefined]
    /\ faults' = faults \cup {Fault("insert", c, NoRequest)}
    /\ UNCHANGED <<docs, pending, feed, key, auth, scene, points, path, graphics,
                   run, completed, issued, subscribedAt, writers, creators,
                   snapshots, lateCaller, single, alt>>

\* variant: a rejected push is sent again
UpdateOneError_Retry(r) ==
    /\ r \in pending
    /\ Fault("append", r.from, r) \notin faults
    /\ faults' = faults \cup {Fault("append", r.from, r)}
    /\ UNCHANGED <<docs, pending, feed, pc, key, auth, scene, points, path,
                   graphics, run, completed, issued, subscribedAt, writers,
                   creators, snapshots, lateCaller, result, single, alt>>

\* updateOne rejects: the promise has a then() only, nothing else happens
UpdateOneError(r) ==
    /\ r \in pending
    /\ pending' = pending \ {r}
    /\ faults' = faults \cup {Fault("append", r.from, r)}
    /\ UNCHANGED <<docs, feed, pc, key, auth, scene, points, path, graphics, run,
                   completed, issued, subscribedAt, writers, creators, snapshots,
                   lateCaller, result, single, alt>>

\* ------------------------------------------------------------ views
\* the scene of c has been started (initScene has run)
Started(c) == pc[c] \in {"booting", "watching", "live"}

\* the strokes of the document c plays in
DocStrokes(c) == docs[scene[c].gameId].strokes

\* the lines of the entries of a draw log that come from the given sources
RECURSIVE Lines(_, _)
Lines(g, srcs) ==
    IF g = <<>> THEN <<>>
    ELSE (IF Head(g).src \in srcs THEN <<Head(g).line>> ELSE <<>>)
         \o Lines(Tail(g), srcs)

\* everything c has drawn, and what it has drawn from the store
Rendered(c) == Lines(graphics[c], {"snapshot", "feed", "tick"})
Replayed(c) == Lines(graphics[c], {"snapshot", "feed"})

Range(q) == {q[i] : i \in DOMAIN q}

\* a sequence without the repetitions of its entries, in order of first occurrence
RECURSIVE FirstSeen(_)
FirstSeen(q) ==
    IF q = <<>> THEN <<>>
    ELSE LET r == FirstSeen(SubSeq(q, 1, Len(q) - 1))
             x == q[Len(q)]
         IN IF x \in Range(r) THEN r ELSE Append(r, x)

\* everything c would have drawn, and replayed, had every event come once
RenderedOnce(c) == Lines(single.graphics[c], {"snapshot", "feed", "tick"})
ReplayedOnce(c) == Lines(single.graphics[c], {"snapshot", "feed"})

\* ------------------------------------------------------------ claims

\* C1: for every non-owner participant, in every reachable state, the
\* sequence of strokes it has rendered is a prefix of the document's strokes.
C1_RenderedIsPrefix ==
    \A c \in Clients :
        (Started(c) /\ ~IsOwner(c)) => IsPrefix(Rendered(c), DocStrokes(c))

\* C2: a participant whose snapshot holds N strokes and whose change stream
\* opened on a document of N strokes (so that it carries the pushes of
\* strokes N+1, N+2, ... in order) has replayed, after k deliveries, exactly
\* the first N+k strokes of the document in document order: the N snapshot
\* strokes first, then one stroke per delivery.
C2_SnapshotThenFeed ==
    \A c \in Clients :
        (pc[c] = "live" /\ subscribedAt[c] = Len(scene[c].strokes)) =>
            LET N == Len(scene[c].strokes)
                k == Len(DocStrokes(c)) - N - Len(feed[c])
            IN /\ k >= 0
               /\ Replayed(c) = SubSeq(DocStrokes(c), 1, N + k)
               /\ Lines(graphics[c], {"snapshot"}) = scene[c].strokes
               /\ Len(Lines(graphics[c], {"feed"})) = k

C2_Witness ==
    \E c \in Clients :
        /\ pc[c] = "live"
        /\ subscribedAt[c] = Len(scene[c].strokes)
        /\ Len(scene[c].strokes) >= 1
        /\ Len(Lines(graphics[c], {"feed"})) >= 1
        /\ Replayed(c)[1] # Replayed(c)[2]

\* C3: every stroke appended to the document is eventually rendered by every
\* participant that has joined.  Stated on the states from which nothing more
\* will be drawn: a participant whose change stream is open and that has no
\* notification outstanding has drawn every stroke of the document.
C3_Converged ==
    \A c \in Clients :
        (pc[c] = "live" /\ feed[c] = <<>>) =>
            Range(DocStrokes(c)) \subseteq Range(Rendered(c))

\* C4: the strokes an owner's sampler hands to updateOne are exactly the
\* maximal runs of consecutive pressed ticks that have ended, in order, each
\* with one point per pressed tick in sampled order; the buffer holds exactly
\* the points of the run in progress (empty after a released tick).
C4_StrokeIsPressedRun ==
    \A c \in Clients :
        /\ issued[c] = completed[c]
        /\ points[c] = run[c]

C4_Witness ==
    \E c \in Clients :
        /\ Len(issued[c]) >= 1
        /\ Len(issued[c][1]) >= 2
        /\ issued[c][1][1] = issued[c][1][2]
        /\ points[c] = <<>>

\* C5: every entry of strokes was pushed by a request that carries the
\* document's owner_id, and an updateOne whose owner_id differs from the
\* document's matches nothing and leaves the collection unchanged.
C5_OnlyOwnerAppends ==
    \A k \in DOMAIN docs :
        /\ Len(writers[k]) = Len(docs[k].strokes)
        /\ \A i \in 1..Len(writers[k]) :
              /\ writers[k][i].owner_id = docs[k].owner_id
              /\ auth[writers[k][i].from] = docs[k].owner_id
              /\ writers[k][i].stroke = docs[k].strokes[i]
        /\ \A a \in Ids, pos \in Positions :
              a # docs[k].owner_id =>
                  LET filter == [owner_id |-> a, _id |-> k] IN
                  /\ ~Matches(docs, filter)
                  /\ updateOne(docs, filter, <<SamplePoint(pos)>>) = docs

C5_Witness ==
    \E k \in DOMAIN docs, c \in Clients :
        /\ Len(docs[k].strokes) >= 1
        /\ Started(c) /\ scene[c].gameId = k
        /\ auth[c] # docs[k].owner_id

\* C6: a participant whose insertOne is rejected by the unique key falls back
\* to the lookup and starts as a spectator; joinOrCreateGame never ends
\* without a started scene.
C6_LoserFallsBack ==
    \A c \in Clients : pc[c] # "failed"

\* C7: for every game id at most one document exists and exactly one
\* insertOne succeeds however the calls interleave; the document starts with
\* empty strokes; no participant starts as owner of an id whose insert its
\* identity did not win.
C7_CreatedOnce ==
    \A k \in Keys :
        /\ Len(creators[k]) <= 1
        /\ (k \in DOMAIN docs) <=> (Len(creators[k]) = 1)
        /\ (\E c \in Clients : key[c] = k /\ (Started(c) \/ pc[c] = "failed"))
               => Len(creators[k]) = 1
        /\ k \in DOMAIN docs => Len(docs[k].strokes) = Len(writers[k])
        /\ \A c \in Clients :
              (Started(c) /\ scene[c].gameId = k /\ IsOwner(c)) =>
                  /\ Len(creators[k]) = 1
                  /\ auth[creators[k][1]] = scene[c].authId

C7_Witness ==
    \E k \in Keys, c \in Clients :
        /\ Len(creators[k]) = 1
        /\ key[c] = k /\ pc[c] = "failed"
        /\ Started(creators[k][1])

\* C8: the caller that creates the game is started with ownerId equal to its
\* own identity; every caller that calls once the document exists joins;
\* every started caller holds the document's owner_id; the snapshots handed
\* out are each a prefix of the next and of the document as it grows.
C8_JoinIdempotent ==
    /\ \A k \in Keys :
          /\ \A i \in 1..Len(creators[k]) :
                LET c == creators[k][i] IN
                /\ scene[c].ownerId = auth[c]
                /\ docs[k].owner_id = auth[c]
          /\ \A i \in 1..(Len(snapshots[k]) - 1) :
                IsPrefix(snapshots[k][i], snapshots[k][i + 1])
    /\ \A c \in Clients :
          /\ (c \in lateCaller) => pc[c] \notin {"inserting", "failed"}
          /\ Started(c) =>
                /\ scene[c].ownerId = docs[scene[c].gameId].owner_id
                /\ IsPrefix(scene[c].strokes, DocStrokes(c))

C8_Witness ==
    \E c \in Clients :
        /\ c \in lateCaller
        /\ Started(c)
        /\ Len(creators[scene[c].gameId]) = 1
        /\ creators[scene[c].gameId][1] # c
        /\ Len(scene[c].strokes) >= 1
        /\ Len(DocStrokes(c)) > Len(scene[c].strokes)
        /\ DocStrokes(c)[1] # DocStrokes(c)[2]

\* C9: the order of the entries of strokes is the order in which the owner
\* completed them: of two strokes of one owner, the one completed first sits
\* at the lower index.
C9_DocOrderIsDrawOrder ==
    \A k \in Keys :
        \A i, j \in 1..Len(writers[k]) :
            (i < j /\ writers[k][i].from = writers[k][j].from)
                => writers[k][i].seq < writers[k][j].seq

\* C10: every completed stroke causes exactly one updateOne: a step issues a
\* request of a participant exactly when it ends one of its runs of pressed
\* ticks (the first released tick with a non-empty buffer), it then issues
\* one request, for that run, and no other step issues any.
C10_OneAppendPerStroke ==
    [][\A c \in Clients :
          LET new == {r \in pending' \ pending : r.from = c} IN
          IF completed'[c] # completed[c]
          THEN /\ Cardinality(new) = 1
               /\ \A r \in new : r.stroke = completed'[c][Len(completed'[c])]
               /\ Len(issued'[c]) = Len(issued[c]) + 1
          ELSE new = {} /\ issued'[c] = issued[c]]_vars

C10_Witness ==
    \E c \in Clients :
        /\ Len(completed[c]) >= 2
        /\ \E r \in pending : r.from = c /\ r.seq = 2

\* C11: no partial stroke is in the document: every entry of strokes (and
\* every request on its way) is the whole point sequence of a run of pressed
\* ticks whose release the sender's updateScene has already seen; the points
\* of a stroke in progress are in the local buffer only.
C11_NoPartialStroke ==
    /\ \A k \in DOMAIN docs :
          /\ Len(writers[k]) = Len(docs[k].strokes)
          /\ \A i \in 1..Len(writers[k]) :
                LET r == writers[k][i] IN
                /\ r.seq <= Len(completed[r.from])
                /\ docs[k].strokes[i] = completed[r.from][r.seq]
    /\ \A r \in pending :
          /\ r.seq <= Len(completed[r.from])
          /\ r.stroke = completed[r.from][r.seq]

C11_Witness ==
    \E c \in Clients :
        /\ Started(c)
        /\ Len(DocStrokes(c)) >= 1
        /\ points[c] # <<>>
        /\ \A i \in 1..Len(DocStrokes(c)) : DocStrokes(c)[i] # points[c]

\* C12: a stroke of exactly one sample (pressed on one tick, released on the
\* next) is committed as a stroke of length 1: its request is issued with
\* that single point and is outstanding or applied.
C12_SinglePointCommitted ==
    \A c \in Clients :
        \A i \in 1..Len(completed[c]) :
            Len(completed[c][i]) = 1 =>
                /\ i <= Len(issued[c])
                /\ issued[c][i] = completed[c][i]
                /\ \/ \E r \in pending :
                         r.from = c /\ r.seq = i /\ r.stroke = completed[c][i]
                   \/ \E k \in DOMAIN docs : \E j \in 1..Len(writers[k]) :
                         /\ writers[k][j].from = c /\ writers[k][j].seq = i
                         /\ j <= Len(docs[k].strokes)
                         /\ docs[k].strokes[j] = completed[c][i]
                         /\ Len(docs[k].strokes[j]) = 1

C12_Witness ==
    \E c \in Clients :
        /\ Len(completed[c]) >= 1
        /\ Len(completed[c][1]) = 1
        /\ Started(c)
        /\ \E j \in 1..Len(DocStrokes(c)) : DocStrokes(c)[j] = completed[c][1]

\* C13: strokes is an append-only log: across every step the old value of
\* strokes is a prefix of the new one, and no document disappears.
C13_AppendOnly ==
    [][\A k \in DOMAIN docs :
          /\ k \in DOMAIN docs'
          /\ IsPrefix(docs[k].strokes, docs'[k].strokes)]_vars

C13_Witness ==
    \E k \in DOMAIN docs :
        /\ Len(docs[k].strokes) = 2
        /\ docs[k].strokes[1] # docs[k].strokes[2]

\* C14: owner_id is set at creation to the identity of the creating
\* participant and no step of any participant changes it afterwards.
C14_OwnerImmutable ==
    [][\A k \in DOMAIN docs' :
          IF k \in DOMAIN docs
          THEN docs'[k].owner_id = docs[k].owner_id
          ELSE \E c \in Clients :
                  /\ pc[c] = "inserting" /\ key[c] = k
                  /\ pc'[c] = "booting"
                  /\ docs'[k].owner_id = auth[c]]_vars

C14_Witness ==
    \E k \in DOMAIN docs, c \in Clients :
        /\ Len(docs[k].strokes) >= 1
        /\ key[c] = k /\ pc[c] = "failed"
        /\ auth[c] # docs[k].owner_id

\* C15: if the lookup of joinOrCreateGame is rejected by the store (not
\* answered with "not found"), no scene is started for that participant.
C15_LookupErrorStops ==
    \A f \in faults : f.kind = "lookup" => ~Started(f.who)

\* C16: a push that the store rejects is not in the document and is never
\* sent again; the step that loses it changes neither the document nor the
\* sender's buffer, picture or scene; nothing drawn is ever removed from a
\* picture; the sender keeps running and keeps handing every completed run
\* of pressed ticks to updateOne.
C16_LostAppend ==
    [][/\ \A f \in faults' :
             f.kind = "append" =>
                /\ f.req \notin pending'
                /\ \A k \in DOMAIN docs' : \A i \in 1..Len(writers'[k]) :
                      writers'[k][i] # f.req
                /\ \A k \in DOMAIN docs' : Len(docs'[k].strokes) = Len(writers'[k])
                /\ pc'[f.who] \in {"watching", "live"}
                /\ issued'[f.who] = completed'[f.who]
                /\ f.req.stroke = issued'[f.who][f.req.seq]
       /\ \A c \in Clients : IsPrefix(graphics[c], graphics'[c])
       /\ (\E f \in faults' \ faults : f.kind = "append") =>
             /\ docs' = docs /\ graphics' = graphics /\ points' = points
             /\ path' = path /\ pc' = pc /\ pending' \subseteq pending]_vars

C16_Witness ==
    \E f \in faults :
        /\ f.kind = "append"
        /\ \E i \in 1..Len(graphics[f.who]) :
              /\ graphics[f.who][i].src = "tick"
              /\ graphics[f.who][i].line = f.req.stroke
        /\ \E k \in DOMAIN docs : \E i \in 1..Len(writers[k]) :
              /\ writers[k][i].from = f.who
              /\ writers[k][i].seq > f.req.seq
              /\ docs[k].strokes[i] # f.req.stroke

\* C17: after a rejected authenticate() the call is over: it is not tried
\* again, neither findOne nor insertOne is issued for the participant, and
\* no scene is started.
C17_AuthFailureStops ==
    \A f \in faults :
        f.kind = "auth" =>
            /\ pc[f.who] = "authfailed"
            /\ auth[f.who] = NoId
            /\ scene[f.who] = NoScene
            /\ result[f.who] = Undefined
            /\ graphics[f.who] = <<>>
            /\ \A k \in Keys : \A i \in 1..Len(creators[k]) : creators[k][i] # f.who
            /\ \A g \in faults : g.who = f.who => g.kind = "auth"

C17_Witness ==
    \E f \in faults, c \in Clients :
        /\ f.kind = "auth"
        /\ c # f.who
        /\ pc[c] = "live"
        /\ key[c] = key[f.who]
        /\ Len(DocStrokes(c)) >= 1

\* C18: on the join path and on the create path joinOrCreateGame resolves
\* with a record that carries the game id, the owner id, the caller's own
\* id and the strokes, so that the caller can tell from it whether it is
\* the owner.
C18_ResultTellsOwner ==
    \A c \in Clients :
        Started(c) =>
            /\ ("gameId" \in result[c].fields \/ "_id" \in result[c].fields)
            /\ {"authId", "owner_id", "strokes"} \subseteq result[c].fields
            /\ (result[c].authId = result[c].owner_id) <=> IsOwner(c)

\* C19: a change event handled while the owner has a stroke in progress
\* leaves the sampler's path and buffer as they were.
C19_ListenerKeepsPath ==
    [][\A c \in Clients :
          (feed[c] # <<>> /\ feed'[c] = Tail(feed[c]) /\ points[c] # <<>>) =>
              /\ path'[c] = path[c]
              /\ points'[c] = points[c]]_vars

\* C20: for a change event that carries the whole strokes field the
\* listener draws exactly one stroke, the last entry of the reported array.
C20_WholeFieldRendersNewest ==
    [][\A c \in Clients :
          (feed[c] # <<>> /\ feed'[c] = Tail(feed[c]) /\ Head(feed[c]).hasStrokes) =>
              LET a == Head(feed[c]).strokes IN
              graphics'[c] = Append(graphics[c], [src |-> "feed", line |-> a[Len(a)]])]_vars

\* C21: for a change event that names the appended strokes by position
\* ("strokes.N") the listener draws every one of them, each once, in
\* ascending order of N, after what was drawn before.
C21_EveryPositionRendered ==
    [][\A c \in Clients :
          (feed[c] # <<>> /\ feed'[c] = Tail(feed[c]) /\ ~Head(feed[c]).hasStrokes) =>
              LET ix == Head(feed[c]).indexed
                  n == Len(graphics[c])
              IN /\ IsPrefix(graphics[c], graphics'[c])
                 /\ Len(graphics'[c]) = n + Len(ix)
                 /\ \A i \in 1..Len(ix) :
                       graphics'[c][n + i] = [src |-> "feed", line |-> ix[i].value]
                 /\ \A i, j \in 1..Len(ix) : i < j => ix[i].pos < ix[j].pos]_vars

C21_Witness ==
    \E c \in Clients :
        /\ feed[c] = <<>>
        /\ Len(graphics[c]) = 2
        /\ graphics[c][1].src = "feed" /\ graphics[c][2].src = "feed"
        /\ graphics[c][1].line # graphics[c][2].line

\* C22: a change event delivered a second time does not change the picture:
\* the set of distinct paths a client has drawn is the set it would have
\* drawn had every event been delivered once, and the distinct strokes it
\* has replayed were first drawn in the same order.
C22_RedeliveryIdempotent ==
    \A c \in Clients :
        /\ Range(Rendered(c)) = Range(RenderedOnce(c))
        /\ FirstSeen(Replayed(c)) = FirstSeen(ReplayedOnce(c))

\* C23: a started scene opens its change stream once, and only when every
\* stroke of its snapshot has been drawn; before that no change event is
\* received or drawn, and in the draw log the snapshot strokes come before
\* everything else, with nothing in between.
C23_SubscribeAfterSnapshot ==
    [][\A c \in Clients :
          /\ pc[c] = "live" =>
                pc'[c] = "live" /\ subscribedAt'[c] = subscribedAt[c]
          /\ (pc[c] # "live" /\ pc'[c] = "live") =>
                /\ pc[c] = "watching"
                /\ Lines(graphics[c], {"snapshot"}) = scene[c].strokes
                /\ Lines(graphics[c], {"feed"}) = <<>>
                /\ feed[c] = <<>>
          /\ pc'[c] # "live" =>
                feed'[c] = <<>> /\ Lines(graphics'[c], {"feed"}) = <<>>
          /\ \A i, j \in 1..Len(graphics'[c]) :
                (i < j /\ graphics'[c][j].src = "snapshot") =>
                    graphics'[c][i].src = "snapshot"
          /\ Len(Lines(graphics'[c], {"snapshot"})) <= Len(scene'[c].strokes)]_vars

C23_Witness ==
    \E c \in Clients :
        /\ pc[c] = "live"
        /\ Len(scene[c].strokes) >= 1
        /\ Len(graphics[c]) >= 2
        /\ graphics[c][1].src = "snapshot"
        /\ graphics[c][Len(graphics[c])].src = "feed"
        /\ feed[c] = <<>>

\* C24: updateScene does not wait for updateOne: the tick that issues a push
\* leaves an empty buffer, and every pressed tick of an owner, with pushes
\* outstanding or not, appends its sample to the buffer (starting a new
\* path when the buffer is empty) and leaves the outstanding pushes alone;
\* a later stroke is issued while an earlier one is still outstanding.
C24_SamplerNotBlocked ==
    [][\A c \in Clients :
          /\ issued'[c] # issued[c] =>
                /\ points'[c] = <<>>
                /\ \E r \in pending' \ pending :
                      r.from = c /\ r.seq = Len(issued'[c])
          /\ (run'[c] # run[c] /\ run'[c] # <<>>) =>
                LET pt == run'[c][Len(run'[c])] IN
                /\ points'[c] = Append(points[c], pt)
                /\ points[c] = <<>> => path'[c] = <<pt>>
                /\ pending' = pending]_vars

C24_Witness ==
    \E r1, r2 \in pending :
        /\ r1.from = r2.from
        /\ r1.seq = 1 /\ r2.seq = 2
        /\ points[r1.from] = <<>>

\* C25: handling a change event never writes to the store: the listener
\* step of any client leaves every document (owner_id, strokes, the set of
\* ids) and the set of outstanding requests as they were, and issues nothing.
C25_ListenerReadsOnly ==
    [][\A c \in Clients :
          (feed[c] # <<>> /\ feed'[c] = Tail(feed[c])) =>
              /\ docs' = docs
              /\ pending' = pending
              /\ issued' = issued
              /\ writers' = writers]_vars

C25_Witness ==
    \E c \in Clients :
        /\ pc[c] = "live"
        /\ Lines(graphics[c], {"feed"}) # <<>>
        /\ feed[c] = <<>>
        /\ pending # {}
        /\ Len(DocStrokes(c)) = 1

\* C26: a client whose identity differs from the owner_id of its document
\* never issues an updateOne: it has handed nothing to updateOne, none of
\* the outstanding requests is its own, and no entry of strokes was pushed
\* by it, whatever its pointer does.
C26_SpectatorNeverAppends ==
    \A c \in Clients :
        (Started(c) /\ auth[c] # docs[scene[c].gameId].owner_id) =>
            /\ issued[c] = <<>>
            /\ completed[c] = <<>>
            /\ \A r \in pending : r.from # c
            /\ \A k \in DOMAIN docs : \A i \in 1..Len(writers[k]) :
                  writers[k][i].from # c

C26_Witness ==
    \E c \in Clients :
        /\ pc[c] = "live"
        /\ auth[c] # docs[scene[c].gameId].owner_id
        /\ ENABLED UpdateScene(c, TRUE, <<12, 12>>)
        /\ ENABLED UpdateScene(c, FALSE, <<12, 12>>)
        /\ Len(DocStrokes(c)) >= 1
        /\ Lines(graphics[c], {"feed"}) # <<>>

\* C28: every entry of strokes has at least one point, and so has every
\* stroke handed to updateOne and every outstanding request: a released tick
\* that finds the buffer empty (at the start, after another released tick,
\* right after a commit) pushes nothing.
C28_NoEmptyStroke ==
    /\ \A k \in DOMAIN docs : \A i \in 1..Len(docs[k].strokes) :
          Len(docs[k].strokes[i]) >= 1
    /\ \A r \in pending : Len(r.stroke) >= 1
    /\ \A c \in Clients : \A i \in 1..Len(issued[c]) : Len(issued[c][i]) >= 1
    /\ \A c \in Clients :
          Len(issued[c]) = Len(completed[c])

C28_Witness ==
    \E c \in Clients :
        /\ pc[c] = "live"
        /\ IsOwner(c)
        /\ points[c] = <<>>
        /\ Len(issued[c]) = 1
        /\ pending = {}
        /\ Len(DocStrokes(c)) = 1
        /\ ENABLED UpdateScene(c, FALSE, <<12, 12>>)

\* C29: for a client whose identity differs from the owner_id of its
\* document a tick changes nothing locally: its buffer stays empty, no path
\* is drawn by a tick, and its picture changes only when its snapshot is
\* drawn or a change event is handled.
C29_SpectatorTickIsNoOp ==
    [][\A c \in Clients :
          (Started(c) /\ pc'[c] = pc[c]
             /\ auth[c] # docs[scene[c].gameId].owner_id) =>
              /\ points'[c] = <<>>
              /\ run'[c] = <<>>
              /\ Lines(graphics'[c], {"tick"}) = <<>>
              /\ (graphics'[c] # graphics[c] \/ path'[c] # path[c]) =>
                    (feed[c] # <<>> /\ feed'[c] = Tail(feed[c]))]_vars

C29_Witness ==
    \E c \in Clients :
        /\ pc[c] = "live"
        /\ auth[c] # docs[scene[c].gameId].owner_id
        /\ ENABLED UpdateScene(c, TRUE, <<14, 13>>)
        /\ Lines(graphics[c], {"snapshot"}) # <<>>
        /\ \E o \in Clients : Lines(graphics[o], {"tick"}) # <<>>

\* C27: games are isolated: a step that changes the document of one id
\* applies a request issued for that id, changes no other document and
\* notifies only clients playing in that id; a client started in id S holds
\* a snapshot of document S, has received one change event per push to S
\* since its stream opened, and has replayed only strokes of document S.
C27_GamesIsolated ==
    [][/\ \A k \in DOMAIN docs :
             docs'[k] # docs[k] =>
                /\ \A k2 \in DOMAIN docs \ {k} : docs'[k2] = docs[k2]
                /\ \E r \in pending \ pending' : r._id = k
                /\ \A c \in Clients :
                      feed'[c] # feed[c] =>
                          pc[c] = "live" /\ scene[c].gameId = k /\ key[c] = k
       /\ \A c \in Clients :
             pc'[c] \in {"booting", "watching", "live"} =>
                LET S == key'[c] IN
                /\ scene'[c].gameId = S
                /\ S \in DOMAIN docs'
                /\ scene'[c].ownerId = docs'[S].owner_id
                /\ IsPrefix(scene'[c].strokes, docs'[S].strokes)
                /\ Range(Lines(graphics'[c], {"snapshot", "feed"}))
                      \subseteq Range(docs'[S].strokes)
                /\ pc'[c] = "live" =>
                      Len(Lines(graphics'[c], {"feed"})) + Len(feed'[c])
                          = Len(docs'[S].strokes) - subscribedAt'[c]]_vars

C27_Witness ==
    \E c, o \in Clients :
        /\ pc[c] = "live" /\ pc[o] = "live"
        /\ key[c] # key[o]
        /\ Len(DocStrokes(c)) = 1 /\ Len(DocStrokes(o)) = 1
        /\ DocStrokes(c) # DocStrokes(o)
        /\ feed[c] = <<>> /\ feed[o] = <<>>
        /\ Lines(graphics[c], {"feed"}) = DocStrokes(c)
        /\ Lines(graphics[o], {"feed"}) = DocStrokes(o)

\* C30: the tick handler of game.js and the tick handler of part_000, fed
\* the same pointer samples (with change events handled in between), push on
\* the same ticks, hold the same buffer, and the n-th push of part_000,
\* this.path.toJSON(), reads back as the point sequence of the n-th push of
\* game.js, this.points.
C30_TickVariantsAgree ==
    \A c \in Clients :
        /\ alt.points[c] = points[c]
        /\ Len(alt.issued[c]) = Len(issued[c])
        /\ \A i \in 1..Len(issued[c]) : fromJSON(alt.issued[c][i]) = issued[c][i]

C30_Witness ==
    \E c \in Clients :
        /\ Len(issued[c]) >= 1
        /\ points[c] # <<>>
        /\ path[c] # alt.path[c]
        /\ Lines(graphics[c], {"feed"}) # <<>>

\* ------------------------------------------------------- specification
Init ==
    /\ docs = [k \in {} |-> 0]
    /\ pending = {}
    /\ feed = [c \in Clients |-> <<>>]
    /\ pc = [c \in Clients |-> "start"]
    /\ key = [c \in Clients |-> NoId]
    /\ auth = [c \in Clients |-> NoId]
    /\ scene = [c \in Clients |-> NoScene]
    /\ points = [c \in Clients |-> <<>>]
    /\ path = [c \in Clients |-> <<>>]
    /\ graphics = [c \in Clients |-> <<>>]
    /\ run = [c \in Clients |-> <<>>]
    /\ completed = [c \in Clients |-> <<>>]
    /\ issued = [c \in Clients |-> <<>>]
    /\ subscribedAt = [c \in Clients |-> 0]
    /\ writers = [k \in Keys |-> <<>>]
    /\ creators = [k \in Keys |-> <<>>]
    /\ snapshots = [k \in Keys |-> <<>>]
    /\ lateCaller = {}
    /\ result = [c \in Clients |-> Undefined]
    /\ faults = {}
    /\ single = [path |-> [c \in Clients |-> <<>>],
                 graphics |-> [c \in Clients |-> <<>>], again |-> 0]
    /\ alt = [points |-> [c \in Clients |-> <<>>], path |-> [c \in Clients |-> <<>>],
              issued |-> [c \in Clients |-> <<>>]]

Next ==
    \/ \E c \in Clients, id \in Keys : \E a \in Credentials[c] : JoinOrCreateGame(c, id, a)
    \/ \E c \in Clients : JoinGame(c)
    \/ \E c \in Clients : CreateGame(c)
    \/ \E c \in Clients : CreateScene(c)
    \/ \E c \in Clients : WatchOpen(c)
    \/ \E c \in Clients : OnNext(c)
    \/ \E c \in Clients, isDown \in BOOLEAN, pos \in Positions : UpdateScene(c, isDown, pos)
    \/ \E r \in pending : UpdateOne(r)

Spec == Init /\ [][Next]_vars

\* the same program with calls to the identity provider and to the store
\* that can be rejected
NextFail ==
    \/ \E c \in Clients, id \in Keys : \E a \in Credentials[c] : JoinOrCreateGame(c, id, a)
    \/ \E c \in Clients : JoinGame(c)
    \/ \E c \in Clients : CreateGame(c)
    \/ \E c \in Clients : CreateScene(c)
    \/ \E c \in Clients : WatchOpen(c)
    \/ \E c \in Clients : OnNext(c)
    \/ \E c \in Clients, isDown \in BOOLEAN, pos \in Positions : UpdateScene(c, isDown, pos)
    \/ \E r \in pending : UpdateOne(r)
    \/ \E c \in Clients, id \in Keys : AuthenticateError(c, id)
    \/ \E c \in Clients : JoinGameError(c)
    \/ \E c \in Clients : CreateGameError(c)
    \/ \E r \in pending : UpdateOneError(r)

SpecFail == Init /\ [][NextFail]_vars

\* the listener on its own: two clients with an open change stream on room1,
\* each with one change event of any shape outstanding
StrokeInputs == {<<SamplePoint(pos)>> : pos \in Positions}

ArrayInputs == UNION {[1..n -> StrokeInputs] : n \in 1..MaxEventStrokes}

EventInputs ==
    {[hasStrokes |-> TRUE, strokes |-> a, indexed |-> <<>>, again |-> FALSE] :
        a \in ArrayInputs}
    \cup
    {[hasStrokes |-> FALSE, strokes |-> <<>>,
      indexed |-> [i \in 1..Len(a) |-> [pos |-> base + i - 1, value |-> a[i]]],
      again |-> FALSE] :
        a \in ArrayInputs, base \in 0..1}

InitListen ==
    /\ docs = [k \in Keys |-> [owner_id |-> "A", strokes |-> <<>>]]
    /\ pending = {}
    /\ feed \in [Clients -> {<<>>} \cup {<<ev>> : ev \in EventInputs}]
    /\ pc = [c \in Clients |-> "live"]
    /\ key = [c \in Clients |-> "room1"]
    /\ auth = [c \in Clients |-> IF c = "c1" THEN "A" ELSE "B"]
    /\ scene = [c \in Clients |->
                  initScene("room1", IF c = "c1" THEN "A" ELSE "B", "A", <<>>)]
    /\ points = [c \in Clients |-> <<>>]
    /\ path = [c \in Clients |-> <<>>]
    /\ graphics = [c \in Clients |-> <<>>]
    /\ run = [c \in Clients |-> <<>>]
    /\ completed = [c \in Clients |-> <<>>]
    /\ issued = [c \in Clients |-> <<>>]
    /\ subscribedAt = [c \in Clients |-> 0]
    /\ writers = [k \in Keys |-> <<>>]
    /\ creators = [k \in Keys |-> <<"c1">>]
    /\ snapshots = [k \in Keys |-> <<<<>>, <<>>>>]
    /\ lateCaller = {"c2"}
    /\ result = [c \in Clients |->
                   IF c = "c1" THEN CreateResult("room1", "A")
                   ELSE JoinResult("room1", [owner_id |-> "A", strokes |-> <<>>])]
    /\ faults = {}
    /\ single = [path |-> [c \in Clients |-> <<>>],
                 graphics |-> [c \in Clients |-> <<>>], again |-> 0]
    /\ alt = [points |-> [c \in Clients |-> <<>>], path |-> [c \in Clients |-> <<>>],
              issued |-> [c \in Clients |-> <<>>]]

NextListen == \E c \in Clients : OnNext(c)

SpecListen == InitListen /\ [][NextListen]_vars

\* two game ids: c1 has created room1 and plays in it, c2 has yet to call
\* joinOrCreateGame and passes either id
Rooms == {"room1", "room2"}

InitRooms ==
    /\ docs = [k \in {"room1"} |-> [owner_id |-> "A", strokes |-> <<>>]]
    /\ pending = {}
    /\ feed = [c \in Clients |-> <<>>]
    /\ pc = [c \in Clients |-> IF c = "c1" THEN "live" ELSE "start"]
    /\ key = [c \in Clients |-> IF c = "c1" THEN "room1" ELSE NoId]
    /\ auth = [c \in Clients |-> IF c = "c1" THEN "A" ELSE NoId]
    /\ scene = [c \in Clients |->
                  IF c = "c1" THEN initScene("room1", "A", "A", <<>>) ELSE NoScene]
    /\ points = [c \in Clients |-> <<>>]
    /\ path = [c \in Clients |-> <<>>]
    /\ graphics = [c \in Clients |-> <<>>]
    /\ run = [c \in Clients |-> <<>>]
    /\ completed = [c \in Clients |-> <<>>]
    /\ issued = [c \in Clients |-> <<>>]
    /\ subscribedAt = [c \in Clients |-> 0]
    /\ writers = [k \in Rooms |-> <<>>]
    /\ creators = [k \in Rooms |-> IF k = "room1" THEN <<"c1">> ELSE <<>>]
    /\ snapshots = [k \in Rooms |-> IF k = "room1" THEN <<<<>>>> ELSE <<>>]
    /\ lateCaller = {}
    /\ result = [c \in Clients |->
                   IF c = "c1" THEN CreateResult("room1", "A") ELSE Undefined]
    /\ faults = {}
    /\ single = [path |-> [c \in Clients |-> <<>>],
                 graphics |-> [c \in Clients |-> <<>>], again |-> 0]
    /\ alt = [points |-> [c \in Clients |-> <<>>], path |-> [c \in Clients |-> <<>>],
              issued |-> [c \in Clients |-> <<>>]]

NextRooms ==
    \/ \E c \in Clients, id \in Rooms : \E a \in Credentials[c] : JoinOrCreateGame(c, id, a)
    \/ \E c \in Clients : JoinGame(c)
    \/ \E c \in Clients : CreateGame(c)
    \/ \E c \in Clients : CreateScene(c)
    \/ \E c \in Clients : WatchOpen(c)
    \/ \E c \in Clients : OnNext(c)
    \/ \E c \in Clients, isDown \in BOOLEAN, pos \in Positions : UpdateScene(c, isDown, pos)
    \/ \E r \in pending : UpdateOne(r)

SpecRooms == InitRooms /\ [][NextRooms]_vars

\* owner and spectator with an open change stream and one event each, the
\* owner's pointer sampled, and an event delivered a second time
NextRedeliver ==
    \/ \E c \in Clients : OnNext(c)
    \/ \E c \in Clients, isDown \in BOOLEAN, pos \in Positions : UpdateScene(c, isDown, pos)
    \/ \E c \in Clients : Redeliver(c)

SpecRedeliver == InitListen /\ [][NextRedeliver]_vars

TypeOK ==
    /\ DOMAIN docs \subseteq Keys
    /\ \A c \in Clients : Len(points[c]) <= MaxSamples

====
